---- MODULE Spec2Model ----
(***************************************************************************)
(* Model of scan.go: the masscan result store.  POST /results runs save,   *)
(* which merges a batch into the table `scan` of an SQLite database inside *)
(* one transaction; GET / runs index and GET /ips.json runs ips, which     *)
(* both read the table through load.  Every HTTP request runs in its own   *)
(* goroutine, so several save calls may be in flight at once.              *)
(*                                                                         *)
(* The source creates no table: the schema of `scan` is set up outside it, *)
(* so the model covers a table that declares (ip, port, proto) unique and  *)
(* one that does not (uniqueKey).  A store operation may fail at any call  *)
(* (database locked past the busy timeout, disk full, I/O error).          *)
(*                                                                         *)
(* Text (ip, proto, the filter) is a sequence of byte values, so that      *)
(* LIKE matching and ORDER BY on text are computed as SQLite computes      *)
(* them.  A stored timestamp, the text "2006-01-02 15:04", is the number   *)
(* of the minute it names: fixed-width text of this layout orders as that  *)
(* number does.                                                            *)
(***************************************************************************)
EXTENDS Integers, Sequences, FiniteSets, Bags, TLC

\* Bounds of the model: the last instant the wall clock reaches, and the
\* clock instants told apart within a minute (the layout "2006-01-02 15:04"
\* drops everything below the minute, so the instants of one minute format to
\* the same text).  The clock starts at the first instant of minute 1.
MaxClock == 5
TicksPerMinute == 2

\* The goroutines serving POST /results.
Procs == {"p1", "p2"}

\* The texts "tcp" and "udp"
TCP == <<116, 99, 112>>
UDP == <<117, 100, 112>>

\* The texts "1.1" and "1.2"
IPA == <<49, 46, 49>>
IPB == <<49, 46, 50>>

\* type port (only Port and Proto are ever read by save)
port(n, proto) == [Port |-> n, Proto |-> proto]

\* type result
result(ip, ports) == [IP |-> ip, Ports |-> ports]

\* The request bodies POSTed to /results.
Batches ==
    { << result(IPA, <<port(22, TCP)>>) >>,
      << result(IPA, <<port(22, TCP)>>), result(IPA, <<port(80, TCP)>>) >>,
      << result(IPB, <<port(22, UDP), port(80, TCP)>>),
         result(IPB, <<port(22, UDP)>>) >> }

\* The values of the query parameter `ip` of GET /: none, "1", "2", "3", "_"
\* and ".1"
Filters == { <<>>, <<49>>, <<50>>, <<51>>, <<95>>, <<46, 49>> }

VARIABLES
    uniqueKey,  \* whether the table scan declares (ip, port, proto) unique
    store,      \* the committed rows of table scan, a bag of rows
    clock,      \* the wall clock
    pc,         \* pc[p]: where goroutine p is in save
    batch,      \* batch[p]: the results of p's current (or, idle, last) call
    idx,        \* idx[p]: the position of its range loop
    nowString,  \* nowString[p]: its nowString
    txn,        \* txn[p]: <<>> or <<t>>, t the table as p's transaction sees it
    status,     \* status[p]: the HTTP status recvResults answered (0: none yet)
    resp        \* the last answer of GET / or GET /ips.json

vars == <<uniqueKey, store, clock, pc, batch, idx, nowString, txn, status, resp>>

----------------------------------------------------------------------------
\* Text and time

\* time.Time.Format("2006-01-02 15:04")
Format(t) == t \div TicksPerMinute

\* time.Parse("2006-01-02 15:04", s): the first instant of the minute
Parse(s) == s * TicksPerMinute

\* The zero time.Time
ZeroTime == 0

\* SQLite's LIKE folds ASCII upper case to lower case
Fold(c) == IF c >= 65 /\ c <= 90 THEN c + 32 ELSE c

\* SQLite: str LIKE pat, where % (37) in pat stands for any text and _ (95)
\* for any one character
RECURSIVE Like(_, _)
Like(pat, str) ==
    IF pat = <<>> THEN str = <<>>
    ELSE IF Head(pat) = 37
         THEN Like(Tail(pat), str) \/ (str # <<>> /\ Like(pat, Tail(str)))
    ELSE IF str = <<>> THEN FALSE
    ELSE IF Head(pat) = 95 THEN Like(Tail(pat), Tail(str))
    ELSE Fold(Head(pat)) = Fold(Head(str)) /\ Like(Tail(pat), Tail(str))

\* fmt.Sprintf("%%%s%%", s)
Pattern(s) == <<37>> \o s \o <<37>>

\* memcmp order of two texts (SQLite's BINARY collation)
RECURSIVE TextLess(_, _)
TextLess(a, b) ==
    IF b = <<>> THEN FALSE
    ELSE IF a = <<>> THEN TRUE
    ELSE IF Head(a) # Head(b) THEN Head(a) < Head(b)
    ELSE TextLess(Tail(a), Tail(b))

----------------------------------------------------------------------------
\* The table

Row(ip, p, proto, first, last) ==
    [ip |-> ip, port |-> p, proto |-> proto, firstseen |-> first, lastseen |-> last]

\* WHERE ip=? AND port=? AND proto=?
Matches(r, ip, p, proto) == r.ip = ip /\ r.port = p /\ r.proto = proto

\* SELECT 1 FROM scan WHERE ip=? AND port=? AND proto=?   (any row?)
Exists(tbl, ip, p, proto) == \E r \in BagToSet(tbl) : Matches(r, ip, p, proto)

\* INSERT INTO scan (ip, port, proto, firstseen, lastseen) VALUES (?, ?, ?, ?, ?)
InsertRow(tbl, ip, p, proto, first, last) ==
    tbl (+) SetToBag({Row(ip, p, proto, first, last)})

\* The number of rows of tbl that are among rows
RECURSIVE CountRows(_, _)
CountRows(rows, tbl) ==
    IF rows = {} THEN 0
    ELSE LET r == CHOOSE x \in rows : TRUE
         IN  CopiesIn(r, tbl) + CountRows(rows \ {r}, tbl)

\* UPDATE scan SET lastseen=? WHERE ip=? AND port=? AND proto=?
UpdateRows(tbl, last, ip, p, proto) ==
    LET Upd(r) == IF Matches(r, ip, p, proto) THEN [r EXCEPT !.lastseen = last] ELSE r
        old == BagToSet(tbl)
    IN  [x \in {Upd(r) : r \in old} |-> CountRows({r \in old : Upd(r) = x}, tbl)]

\* ORDER BY port, proto, ip, lastseen (rows equal in all four: by firstseen)
RowLess(a, b) ==
    IF a.port # b.port THEN a.port < b.port
    ELSE IF a.proto # b.proto THEN TextLess(a.proto, b.proto)
    ELSE IF a.ip # b.ip THEN TextLess(a.ip, b.ip)
    ELSE IF a.lastseen # b.lastseen THEN a.lastseen < b.lastseen
    ELSE a.firstseen < b.firstseen

Copies(r, n) == [i \in 1..n |-> r]

RECURSIVE OrderBy(_, _)
OrderBy(rows, tbl) ==
    IF rows = {} THEN <<>>
    ELSE LET r == CHOOSE x \in rows : \A y \in rows \ {x} : RowLess(x, y)
         IN  Copies(r, CopiesIn(r, tbl)) \o OrderBy(rows \ {r}, tbl)

\* SELECT ip, port, proto, firstseen, lastseen FROM scan [WHERE ip LIKE ?] ORDER BY ...
Select(tbl, s) ==
    OrderBy({r \in BagToSet(tbl) : s = <<>> \/ Like(Pattern(s), r.ip)}, tbl)

----------------------------------------------------------------------------
\* load, index, ips

\* Mutant of scandata: New marks the rows of the latest lastseen in the table
scandataLatest(r) ==
    [IP |-> r.ip, Port |-> r.port, Proto |-> r.proto,
     FirstSeen |-> r.firstseen, LastSeen |-> r.lastseen,
     New |-> (\A x \in BagToSet(store) : Parse(x.lastseen) <= Parse(r.lastseen))]

\* type scandata, as the rows.Next loop of load builds it
scandata(r) ==
    [IP |-> r.ip, Port |-> r.port, Proto |-> r.proto,
     FirstSeen |-> r.firstseen, LastSeen |-> r.lastseen,
     New |-> (Parse(r.lastseen) = Parse(r.firstseen))]

\* load(s)
load(tbl, s) ==
    LET rows == Select(tbl, s) IN [i \in 1..Len(rows) |-> scandata(rows[i])]

\* The first loop of index: the latest LastSeen of the results
RECURSIVE LatestOf(_, _)
LatestOf(results, latest) ==
    IF results = <<>> THEN latest
    ELSE LET last == Parse(Head(results).LastSeen)
         IN  LatestOf(Tail(results), IF last > latest THEN last ELSE latest)

\* The second loop of index: data.Latest
CountLatest(results, latest) ==
    Cardinality({i \in 1..Len(results) : Parse(results[i].LastSeen) = latest})

\* Mutant of indexData: the latest LastSeen is taken over the whole table
indexDataGlobal(results, code, s) ==
    [handler |-> "index", ip |-> s, code |-> code,
     Total |-> Len(results),
     Latest |-> CountLatest(results, LatestOf(load(store, <<>>), ZeroTime)),
     Results |-> results]

\* index: the page rendered for GET /?ip=s (code: the status written)
indexData(results, code, s) ==
    [handler |-> "index", ip |-> s, code |-> code,
     Total |-> Len(results),
     Latest |-> CountLatest(results, LatestOf(results, ZeroTime)),
     Results |-> results]

\* ips: the array answered to GET /ips.json
ipsData(data, code) ==
    [handler |-> "ips", code |-> code, ips |-> [i \in 1..Len(data) |-> data[i].IP]]

\* GET / with a load that succeeds
Index(s) ==
    /\ resp' = indexData(load(store, s), 200, s)
    /\ UNCHANGED <<uniqueKey, store, clock, pc, batch, idx, nowString, txn, status>>

\* GET / with a load that fails: 500 is written, then the page of no results
IndexLoadFail(s) ==
    /\ resp' = indexData(<<>>, 500, s)
    /\ UNCHANGED <<uniqueKey, store, clock, pc, batch, idx, nowString, txn, status>>

\* GET /ips.json with a load that succeeds
Ips ==
    /\ resp' = ipsData(load(store, <<>>), 200)
    /\ UNCHANGED <<uniqueKey, store, clock, pc, batch, idx, nowString, txn, status>>

\* GET /ips.json with a load that fails
IpsLoadFail ==
    /\ resp' = ipsData(<<>>, 500)
    /\ UNCHANGED <<uniqueKey, store, clock, pc, batch, idx, nowString, txn, status>>

----------------------------------------------------------------------------
\* save, called by recvResults

\* r.IP and r.Ports[0] of the entry the loop is at
CurIP(p) == batch[p][idx[p]].IP
CurPort(p) == batch[p][idx[p]].Ports[1]

\* The table as p's transaction sees it
TxnView(p) == IF txn[p] = <<>> THEN store ELSE txn[p][1]

\* SQLite lets one connection write at a time: p's first write takes the
\* write lock, which p holds until it commits or rolls back
MayWrite(p) == \A q \in Procs \ {p} : txn[q] = <<>>

\* The table the lookup statement reads: qry is prepared on db, not on txn,
\* so it runs on another connection and sees committed rows only
QryView(p) == store

\* Mutant of Rollback: the transaction is committed instead of rolled back
RollbackCommits(p) ==
    /\ pc' = [pc EXCEPT ![p] = "idle"]
    /\ store' = TxnView(p)
    /\ txn' = [txn EXCEPT ![p] = <<>>]
    /\ status' = [status EXCEPT ![p] = 500]
    /\ UNCHANGED <<uniqueKey, clock, batch, idx, nowString, resp>>

\* txn.Rollback(); return err -- and recvResults answers 500
Rollback(p) ==
    /\ pc' = [pc EXCEPT ![p] = "idle"]
    /\ txn' = [txn EXCEPT ![p] = <<>>]
    /\ status' = [status EXCEPT ![p] = 500]
    /\ UNCHANGED <<uniqueKey, store, clock, batch, idx, nowString, resp>>

\* What txn.Commit() leaves in the database
Committed(p) == TxnView(p)

\* continue / the end of the loop body
NextEntry(p) ==
    /\ idx' = [idx EXCEPT ![p] = idx[p] + 1]
    /\ pc' = [pc EXCEPT ![p] = IF idx[p] < Len(batch[p]) THEN "query" ELSE "commit"]

\* recvResults binds the body and calls save, which opens the database,
\* begins the transaction, prepares its statements and reads the clock
Begin(p, b) ==
    /\ pc[p] = "idle"
    /\ pc' = [pc EXCEPT ![p] = "query"]
    /\ batch' = [batch EXCEPT ![p] = b]
    /\ idx' = [idx EXCEPT ![p] = 1]
    /\ nowString' = [nowString EXCEPT ![p] = Format(clock)]
    /\ status' = [status EXCEPT ![p] = 0]
    /\ UNCHANGED <<uniqueKey, store, clock, txn, resp>>

\* qry.QueryRow(r.IP, port.Port, port.Proto).Scan(&x)
Query(p) ==
    /\ pc[p] = "query"
    /\ pc' = [pc EXCEPT ![p] =
                IF Exists(QryView(p), CurIP(p), CurPort(p).Port, CurPort(p).Proto)
                THEN "update" ELSE "insert"]
    /\ UNCHANGED <<uniqueKey, store, clock, batch, idx, nowString, txn, status, resp>>

\* The lookup fails with an error other than sql.ErrNoRows
QueryFail(p) ==
    /\ pc[p] = "query"
    /\ Rollback(p)

\* insert.Exec(r.IP, port.Port, port.Proto, nowString, nowString)
Insert(p) ==
    /\ pc[p] = "insert"
    /\ MayWrite(p)
    /\ ~(uniqueKey /\ Exists(TxnView(p), CurIP(p), CurPort(p).Port, CurPort(p).Proto))
    /\ txn' = [txn EXCEPT ![p] =
                 << InsertRow(TxnView(p), CurIP(p), CurPort(p).Port, CurPort(p).Proto,
                              nowString[p], nowString[p]) >>]
    /\ NextEntry(p)
    /\ UNCHANGED <<uniqueKey, store, clock, batch, nowString, status, resp>>

\* The insert violates the table's unique key
InsertConflict(p) ==
    /\ pc[p] = "insert"
    /\ MayWrite(p)
    /\ uniqueKey /\ Exists(TxnView(p), CurIP(p), CurPort(p).Port, CurPort(p).Proto)
    /\ Rollback(p)

\* update.Exec(nowString, r.IP, port.Port, port.Proto)
Update(p) ==
    /\ pc[p] = "update"
    /\ MayWrite(p)
    /\ txn' = [txn EXCEPT ![p] =
                 << UpdateRows(TxnView(p), nowString[p], CurIP(p), CurPort(p).Port,
                               CurPort(p).Proto) >>]
    /\ NextEntry(p)
    /\ UNCHANGED <<uniqueKey, store, clock, batch, nowString, status, resp>>

\* insert.Exec or update.Exec fails (the database is locked past the busy
\* timeout, the disk is full, ...)
ExecFail(p) ==
    /\ pc[p] \in {"insert", "update"}
    /\ Rollback(p)

\* txn.Commit(); return nil -- and recvResults answers 200
Commit(p) ==
    /\ pc[p] = "commit"
    /\ store' = Committed(p)
    /\ pc' = [pc EXCEPT ![p] = "idle"]
    /\ txn' = [txn EXCEPT ![p] = <<>>]
    /\ status' = [status EXCEPT ![p] = 200]
    /\ UNCHANGED <<uniqueKey, clock, batch, idx, nowString, resp>>

\* txn.Commit() fails: its error is dropped, save returns nil, and the
\* deferred db.Close() discards the transaction
CommitFail(p) ==
    /\ pc[p] = "commit"
    /\ pc' = [pc EXCEPT ![p] = "idle"]
    /\ txn' = [txn EXCEPT ![p] = <<>>]
    /\ status' = [status EXCEPT ![p] = 200]
    /\ UNCHANGED <<uniqueKey, store, clock, batch, idx, nowString, resp>>

\* Time passes (time.Now() is taken never to step back)
Tick ==
    /\ clock < MaxClock
    /\ clock' = clock + 1
    /\ UNCHANGED <<uniqueKey, store, pc, batch, idx, nowString, txn, status, resp>>

----------------------------------------------------------------------------

Init ==
    /\ uniqueKey \in BOOLEAN
    /\ store = EmptyBag
    /\ clock = TicksPerMinute
    /\ pc = [p \in Procs |-> "idle"]
    /\ batch = [p \in Procs |-> <<>>]
    /\ idx = [p \in Procs |-> 1]
    /\ nowString = [p \in Procs |-> 0]
    /\ txn = [p \in Procs |-> <<>>]
    /\ status = [p \in Procs |-> 0]
    /\ resp = [handler |-> "none"]

\* The steps of save after its start, on a store that works
Work(p) ==
    \/ Query(p)
    \/ Insert(p)
    \/ InsertConflict(p)
    \/ Update(p)
    \/ Commit(p)

\* The steps of save at which the store fails
Fail(p) ==
    \/ QueryFail(p)
    \/ ExecFail(p)
    \/ CommitFail(p)

\* The steps of POST /results served by goroutine p
Save(p) ==
    \/ \E b \in Batches : Begin(p, b)
    \/ Work(p)
    \/ Fail(p)

\* The steps of GET / and GET /ips.json
Get ==
    \/ \E s \in Filters : Index(s)
    \/ \E s \in Filters : IndexLoadFail(s)
    \/ Ips
    \/ IpsLoadFail

Next ==
    \/ \E p \in Procs : Save(p)
    \/ Tick
    \/ Get

\* Every handler, every goroutine.
Spec == Init /\ [][Next]_vars

\* POST /results alone.  No step of save reads resp and no GET handler
\* changes anything else, so the behaviours of Spec are these with GET steps
\* put in between.
SaveNext ==
    \/ \E p \in Procs : Save(p)
    \/ Tick

SpecSave == Init /\ [][SaveNext]_vars

\* The GET handlers, with the requests to POST /results served one after
\* the other by one goroutine.
QueryNext ==
    \/ Save("p1")
    \/ Tick
    \/ Get

SpecQuery == Init /\ [][QueryNext]_vars

\* p has not served a request yet
Fresh(p) == pc[p] = "idle" /\ status[p] = 0

\* Two requests to POST /results, one per goroutine, in flight together or
\* not, on a store that works.
PairNext ==
    \/ \E p \in Procs, b \in Batches : Fresh(p) /\ Begin(p, b)
    \/ \E p \in Procs : Work(p)
    \/ Tick

SpecPair == Init /\ [][PairNext]_vars

\* Two requests to POST /results, one per goroutine, the second arriving
\* after the first was answered.
SeqNext ==
    \/ \E p \in Procs, b \in Batches :
          Fresh(p) /\ (\A q \in Procs : pc[q] = "idle") /\ Begin(p, b)
    \/ \E p \in Procs : Work(p) \/ Fail(p)
    \/ Tick

SpecSeq == Init /\ [][SeqNext]_vars

----------------------------------------------------------------------------
\* The properties checked

\* The identity tuples of the entries of a batch
TuplesOf(b) ==
    {<<b[i].IP, b[i].Ports[1].Port, b[i].Ports[1].Proto>> : i \in 1..Len(b)}

\* The rows of a table for an identity tuple
RowsOf(tbl, t) == {r \in BagToSet(tbl) : Matches(r, t[1], t[2], t[3])}

\* p's call has been answered with code
Answered(p, code) == pc[p] = "idle" /\ status[p] = code

\* C1: two successful ingests at T1 < T2 of batches that both hold a tuple
\* absent before the first leave that tuple's record with firstSeen = T1 and
\* lastSeen = T2.
C1_FirstAndLastSeen ==
    \A p \in Procs, q \in Procs :
        (Answered(p, 200) /\ Answered(q, 200) /\ nowString[p] < nowString[q]) =>
            \A t \in TuplesOf(batch[p]) \cap TuplesOf(batch[q]) :
                /\ RowsOf(store, t) # {}
                /\ \A r \in RowsOf(store, t) :
                      r.firstseen = nowString[p] /\ r.lastseen = nowString[q]

\* C2: a save that fails at a lookup, an insert or an update answers an
\* error and leaves the committed table as it was; the table changes only
\* when a save commits.
C2_FailedSaveLeavesStore ==
    [][ /\ \A p \in Procs :
              (pc[p] \in {"query", "insert", "update"} /\ pc'[p] = "idle") =>
                  (status'[p] = 500 /\ store' = store)
        /\ store' # store => \E p \in Procs : pc[p] = "commit" /\ status'[p] = 200
      ]_vars

\* C2 witness: a save failed at its second entry after inserting the tuple of
\* its first, and that tuple is not in the table.
C2_Witness ==
    \E p \in Procs :
        /\ Answered(p, 500)
        /\ idx[p] = 2
        /\ \A t \in TuplesOf(SubSeq(batch[p], 1, 1)) : RowsOf(store, t) = {}

\* C3: when POST /results answers success, every entry of the batch has a
\* record whose lastSeen is the batch's timestamp.
C3_SuccessMeansLanded ==
    [][ \A p \in Procs :
            (pc[p] = "commit" /\ pc'[p] = "idle" /\ status'[p] = 200) =>
                \A t \in TuplesOf(batch[p]) :
                    \E r \in RowsOf(store', t) : r.lastseen = nowString[p]
      ]_vars

\* C5: the table holds at most one record per identity tuple, and a
\* successful ingest of a batch with a tuple never seen before leaves exactly
\* one record for it, with firstSeen = lastSeen.
C5_OneRecordPerTuple ==
    [][ /\ \A r \in BagToSet(store') :
              CopiesIn(r, store') = 1 /\ RowsOf(store', <<r.ip, r.port, r.proto>>) = {r}
        /\ \A p \in Procs :
              (pc[p] = "commit" /\ pc'[p] = "idle" /\ status'[p] = 200) =>
                  \A t \in TuplesOf(batch[p]) :
                      RowsOf(store, t) = {} =>
                          \E r \in BagToSet(store') :
                              /\ RowsOf(store', t) = {r}
                              /\ CopiesIn(r, store') = 1
                              /\ r.firstseen = r.lastseen
      ]_vars

\* save run alone on tbl, on a store that works: the table it leaves
RECURSIVE SaveRows(_, _, _, _, _)
SaveRows(tbl, view, b, i, now) ==
    IF i > Len(b) THEN view
    ELSE LET ip == b[i].IP
             pt == b[i].Ports[1]
         IN  IF Exists(tbl, ip, pt.Port, pt.Proto)
             THEN SaveRows(tbl, UpdateRows(view, now, ip, pt.Port, pt.Proto), b, i + 1, now)
             ELSE IF uniqueKey /\ Exists(view, ip, pt.Port, pt.Proto)
             THEN tbl
             ELSE SaveRows(tbl, InsertRow(view, ip, pt.Port, pt.Proto, now, now), b, i + 1, now)

\* The tables left by running the calls of the goroutines S one after the
\* other, in every order
RECURSIVE SerialOutcomes(_, _)
SerialOutcomes(tbl, S) ==
    IF S = {} THEN {tbl}
    ELSE UNION { SerialOutcomes(SaveRows(tbl, tbl, batch[p], 1, nowString[p]), S \ {p}) :
                 p \in S }

\* C6: once two concurrent ingests have been answered, the table is the one
\* left by running those that answered success one after the other in some
\* order.
C6_Serializable ==
    (\A p \in Procs : pc[p] = "idle" /\ status[p] # 0) =>
        store \in SerialOutcomes(EmptyBag, {p \in Procs : status[p] = 200})

\* C9: every stored record has firstSeen <= lastSeen.
C9_FirstSeenNotAfterLastSeen ==
    \A r \in BagToSet(store) : r.firstseen <= r.lastseen

\* The latest LastSeen among rows, a non-empty sequence of scandata
MaxLastSeen(rows) ==
    CHOOSE m \in {rows[i].LastSeen : i \in 1..Len(rows)} :
        \A i \in 1..Len(rows) : rows[i].LastSeen <= m

C7_DistinctIPs ==
    [][ (resp'.handler = "ips" /\ resp'.code = 200 /\ resp' # resp) =>
            /\ \A i \in 1..Len(resp'.ips), j \in 1..Len(resp'.ips) :
                  resp'.ips[i] = resp'.ips[j] => i = j
            /\ {resp'.ips[i] : i \in 1..Len(resp'.ips)} = {r.ip : r \in BagToSet(store)}
      ]_vars

\* f occurs in ip as a substring
Contains(ip, f) ==
    \E k \in 0..(Len(ip) - Len(f)) : SubSeq(ip, k + 1, k + Len(f)) = f

\* a comes before b, or with it, in (port, proto, ip, lastSeen) order
InOrder(a, b) ==
    IF a.Port # b.Port THEN a.Port < b.Port
    ELSE IF a.Proto # b.Proto THEN TextLess(a.Proto, b.Proto)
    ELSE IF a.IP # b.IP THEN TextLess(a.IP, b.IP)
    ELSE a.LastSeen <= b.LastSeen

\* C8: a query with a non-empty filter f returns exactly the stored records
\* whose ip contains f, in ascending (port, proto, ip, lastSeen) order.
C8_FilterIsSubstring ==
    [][ (resp'.handler = "index" /\ resp'.code = 200 /\ resp'.ip # <<>> /\ resp' # resp) =>
            LET rows == resp'.Results
                hits == {r \in BagToSet(store) : Contains(r.ip, resp'.ip)}
            IN  /\ \A i \in 1..Len(rows) :
                      \E r \in hits :
                          /\ rows[i] = scandata(r)
                          /\ Cardinality({j \in 1..Len(rows) : rows[j] = rows[i]})
                                = CopiesIn(r, store)
                /\ \A r \in hits : \E i \in 1..Len(rows) : rows[i] = scandata(r)
                /\ \A i \in 1..Len(rows), j \in 1..Len(rows) :
                      i < j => InOrder(rows[i], rows[j])
      ]_vars

\* C10: the page's Latest is the number of returned rows whose lastSeen is
\* the latest among the rows returned for the filter, its Total the number
\* of returned rows, and both are 0 when no row is returned.
C10_LatestAndTotal ==
    resp.handler = "index" =>
        /\ resp.Total = Len(resp.Results)
        /\ resp.Results = <<>> => (resp.Total = 0 /\ resp.Latest = 0)
        /\ resp.Results # <<>> =>
              resp.Latest = Cardinality({i \in 1..Len(resp.Results) :
                                resp.Results[i].LastSeen = MaxLastSeen(resp.Results)})

\* C10 witness: a filtered page of several rows, not all of the latest
\* lastSeen.
C10_Witness ==
    /\ resp.handler = "index" /\ resp.code = 200 /\ resp.ip # <<>>
    /\ resp.Total >= 2
    /\ resp.Latest >= 1
    /\ resp.Latest < resp.Total

====
